---- MODULE Spec2Model ----
(***************************************************************************)
(* Model of backend/main.py, the FastAPI backend of the Video Scene        *)
(* Extractor: the upload, listing and download handlers over the           *)
(* filesystem under OUTPUT_ROOT.                                           *)
(*                                                                         *)
(* File and directory names are strings, compared character by character   *)
(* in ASCII order as Python's sorted() compares them.  The extractor       *)
(* (ffmpeg) is a black box: it writes some number of frames and exits      *)
(* with some status.                                                       *)
(***************************************************************************)
EXTENDS Integers, Sequences, FiniteSets, TLC

VARIABLES
    dirs,      \* job directories under OUTPUT_ROOT: name -> set of file names
    archives,  \* regular files under OUTPUT_ROOT: name -> content of the zip file
    uploads,   \* per created job: what its upload request did (history)
    dl,        \* download requests in flight: slot -> position in download_zip
    resp       \* the response of the request that finished last

vars == <<dirs, archives, uploads, dl, resp>>

----------------------------------------------------------------------------
(* Bounds of the model *)

MaxJobs == 1        \* uploads that create a job directory
MaxFrames == 3      \* frames the extractor writes in one run
MaxPage == 3        \* page numbers requested
MaxLimit == 2       \* page sizes requested
MaxDownloads == 2   \* download requests in flight at once

(* Program constants *)

LimitMax == 500     \* Query(50, ge=1, le=500)
PadWidth == 6       \* frame-%06d.jpg

None == "None"

----------------------------------------------------------------------------
(* Strings *)

\* the characters of the names that occur, in ASCII order
Alphabet == "-./0123456789abcdefghijklmnopqrstuvwxyz"

Chars == [i \in 1..Len(Alphabet) |-> SubSeq(Alphabet, i, i)]

\* ord(c), counted within Alphabet
Ord(c) == CHOOSE i \in DOMAIN Chars : Chars[i] = c

\* the first position from i on where a and b differ or one of them ends
RECURSIVE FirstDiff(_, _, _)
FirstDiff(a, b, i) ==
    IF i > Len(a) \/ i > Len(b) THEN i
    ELSE IF SubSeq(a, i, i) # SubSeq(b, i, i) THEN i
    ELSE FirstDiff(a, b, i + 1)

\* Python's str < str: lexicographic by code point, a proper prefix is smaller
StrLess(a, b) ==
    LET i == FirstDiff(a, b, 1)
    IN  IF i > Len(b) THEN FALSE
        ELSE IF i > Len(a) THEN TRUE
        ELSE Ord(SubSeq(a, i, i)) < Ord(SubSeq(b, i, i))

\* str.endswith
EndsWith(s, suffix) ==
    /\ Len(s) >= Len(suffix)
    /\ SubSeq(s, Len(s) - Len(suffix) + 1, Len(s)) = suffix

\* sorted(iterable of str)
RECURSIVE Sorted(_)
Sorted(S) ==
    IF S = {} THEN <<>>
    ELSE LET m == CHOOSE x \in S : \A y \in S \ {x} : StrLess(x, y)
         IN  <<m>> \o Sorted(S \ {m})

\* "%06d" % n: zero-padded to PadWidth, wider numbers printed in full
RECURSIVE Zeros(_)
Zeros(n) == IF n <= 0 THEN "" ELSE "0" \o Zeros(n - 1)

Pad(n) == Zeros(PadWidth - Len(ToString(n))) \o ToString(n)

\* os.path.join(dest_dir, "frame-%06d.jpg"), the n-th file ffmpeg writes
FrameName(n) == "frame-" \o Pad(n) \o ".jpg"

\* seq[start:end] of Python, start and end counted from 0
Slice(seq, start, end) ==
    LET hi == IF end < Len(seq) THEN end ELSE Len(seq)
    IN  IF start >= hi THEN <<>> ELSE SubSeq(seq, start + 1, hi)

\* math.ceil(total / limit)
Ceil(total, limit) ==
    IF total % limit = 0 THEN total \div limit ELSE (total \div limit) + 1

Max(a, b) == IF a >= b THEN a ELSE b

----------------------------------------------------------------------------
(* The filesystem under OUTPUT_ROOT *)

\* uuid.uuid4().hex: the i-th token drawn, a fresh hexadecimal string
Uuid(i) == "a" \o ToString(i)

JobIds == {Uuid(i) : i \in 1..MaxJobs}

\* shutil.make_archive(base_name, "zip", ...) writes base_name + ".zip"
ZipName(job_id) == job_id \o ".zip"

\* The job_id path parameters requested: every token an upload can draw, the
\* names of their archives, the directory's own entry "." and a token that
\* no upload draws
Ids == JobIds \cup {ZipName(j) : j \in JobIds} \cup {".", "ffff"}

\* os.path.isdir(os.path.join(OUTPUT_ROOT, job_id))
IsDir(job_id) == job_id \in DOMAIN dirs \/ job_id = "."

\* os.listdir(os.path.join(OUTPUT_ROOT, job_id)) of a directory
ListDir(job_id) ==
    IF job_id \in DOMAIN dirs THEN dirs[job_id]
    ELSE DOMAIN dirs \cup DOMAIN archives

----------------------------------------------------------------------------
(* POST /api/upload *)

Modes == {"scene", "all"}

\* faulty variant: the mode is not validated
ModeRejected_never(mode) == FALSE

\* mode not in ("scene", "all") raises HTTPException(400)
ModeRejected(mode) == mode \notin Modes

\* faulty variant: subprocess.run without check=True
ExtractRaises_unchecked(exit) == FALSE

\* subprocess.run(cmd, capture_output=True, check=True) raises
\* CalledProcessError on a non-zero exit status
ExtractRaises(exit) == exit # 0

\* the files ffmpeg has written when it exits after n frames
Frames(n) == {FrameName(i) : i \in 1..n}

\* the uploaded file names tried
Filenames == {"clip.mp4", FrameName(1)}

\* job_id = uuid.uuid4().hex
NextJobId == Uuid(Cardinality(DOMAIN dirs) + 1)

\* the outcomes of open(temp_path, "wb") and f.write(...)
IoOutcomes == {"ok", "open_fails", "write_fails"}

\* The job directory when the request ends.  open() creates the file and
\* write() fills it, both before the try block; ffmpeg then writes its
\* frames; os.remove(temp_path) runs in the finally of the try block only.
JobDirAfter(filename, io, n) ==
    IF io = "open_fails" THEN {}
    ELSE IF io = "write_fails" THEN {filename}
    ELSE ({filename} \cup Frames(n)) \ {filename}

upload_video(filename, mode, io, n, exit) ==
    IF ModeRejected(mode)
    THEN /\ resp' = [op |-> "upload", mode |-> mode, status |-> 400,
                     job_id |-> None]
         /\ UNCHANGED <<dirs, archives, uploads, dl>>
    ELSE \E job_id \in {NextJobId} \cap JobIds :
         LET ran == io = "ok"
             failed == ~ran \/ ExtractRaises(exit)
         IN  /\ dirs' = dirs @@ (job_id :> JobDirAfter(filename, io, n))
             /\ uploads' = uploads @@ (job_id :>
                    [filename |-> filename,
                     io       |-> io,
                     ran      |-> ran,
                     exit     |-> IF ran THEN exit ELSE -1,
                     produced |-> IF ran THEN Frames(n) ELSE {}])
             /\ resp' = [op |-> "upload", mode |-> mode,
                         status |-> IF failed THEN 500 ELSE 200,
                         job_id |-> IF failed THEN None ELSE job_id]
             /\ UNCHANGED <<archives, dl>>

----------------------------------------------------------------------------
(* GET /api/images/{job_id} *)

\* sorted(f for f in os.listdir(job_dir) if f.endswith(".jpg"))
AllImages(job_id) == Sorted({f \in ListDir(job_id) : EndsWith(f, ".jpg")})

\* faulty variant: total // limit in place of math.ceil(total / limit)
TotalPages_floor(total, limit) == Max(1, total \div limit)

\* max(1, math.ceil(total / limit))
TotalPages(total, limit) == Max(1, Ceil(total, limit))

\* faulty variant: the page number taken as 0-based
PageSlice_zero_based(all, page, limit) ==
    Slice(all, page * limit, page * limit + limit)

\* all_images[(page - 1) * limit : (page - 1) * limit + limit]
PageSlice(all, page, limit) ==
    Slice(all, (page - 1) * limit, (page - 1) * limit + limit)

\* f"/output/{job_id}/{name}"
Url(job_id, name) == "/output/" \o job_id \o "/" \o name

ListResponse(job_id, page, limit) ==
    IF ~IsDir(job_id)
    THEN [op |-> "list", job_id |-> job_id, status |-> 404]
    ELSE LET all_images == AllImages(job_id)
             total == Len(all_images)
             names == PageSlice(all_images, page, limit)
         IN  [op |-> "list", job_id |-> job_id, status |-> 200,
              images |-> [i \in 1..Len(names) |-> Url(job_id, names[i])],
              page |-> page,
              total_pages |-> TotalPages(total, limit),
              total |-> total,
              page_size |-> limit]

list_images(job_id, page, limit) ==
    /\ resp' = ListResponse(job_id, page, limit)
    /\ UNCHANGED <<dirs, archives, uploads, dl>>

----------------------------------------------------------------------------
(* GET /api/download/{job_id} *)

\* what zipfile has put into a file opened with mode "w": the member files
\* written since the file was last truncated, and whether the central
\* directory, which close() writes, is there
EmptyZip == [entries |-> {}, cd |-> FALSE]

\* shutil.make_archive(job_dir, "zip", job_dir): the members of the archive
\* are the files of the job directory
Walk(job_id) == dirs[job_id]

\* The job_id path parameters requested of the download endpoint.  The
\* archive of the output root itself (job_id ".") is left out: it holds
\* every job and every archive, itself included.
DownloadIds == Ids \ {"."}

\* zipfile.ZipFile(zip_path, "w"): creates the file or truncates it
ZipOpened(files, job_id) ==
    [z \in DOMAIN files \cup {ZipName(job_id)} |->
        IF z = ZipName(job_id) THEN EmptyZip ELSE files[z]]

\* the member files are written, each at its offset in the file
ZipWritten(files, job_id, members) ==
    [files EXCEPT ![ZipName(job_id)].entries = members]

\* ZipFile.close() writes the central directory
ZipClosed(files, job_id) ==
    [files EXCEPT ![ZipName(job_id)].cd = TRUE]

\* FileResponse(zip_path, filename=f"{job_id}.zip",
\* media_type="application/zip"): the file at zip_path as it is when sent
FileResponse(files, job_id) ==
    [op |-> "download", job_id |-> job_id, status |-> 200,
     filename |-> job_id \o ".zip", body |-> files[ZipName(job_id)]]

\* JSONResponse({"error": "job not found"}, status_code=404)
NotFoundResponse(job_id) ==
    [op |-> "download", job_id |-> job_id, status |-> 404]

\* The handler from its first line to the end of its response, with no
\* other request in between
download_zip(job_id) ==
    IF ~IsDir(job_id)
    THEN /\ resp' = NotFoundResponse(job_id)
         /\ UNCHANGED <<dirs, archives, uploads, dl>>
    ELSE LET opened == ZipOpened(archives, job_id)
             zipped == ZipClosed(ZipWritten(opened, job_id, Walk(job_id)),
                                 job_id)
         IN  /\ archives' = zipped
             /\ resp' = FileResponse(zipped, job_id)
             /\ UNCHANGED <<dirs, uploads, dl>>

\* The handler step by step, as the thread pool runs it beside other
\* requests.  First the os.path.isdir check and the opening of zip_path.
download_begin(d, job_id) ==
    /\ dl[d].pc = "idle"
    /\ IF ~IsDir(job_id)
       THEN /\ resp' = NotFoundResponse(job_id)
            /\ UNCHANGED <<dirs, archives, uploads, dl>>
       ELSE /\ archives' = ZipOpened(archives, job_id)
            /\ dl' = [dl EXCEPT ![d] = [pc |-> "write", job_id |-> job_id]]
            /\ UNCHANGED <<dirs, uploads, resp>>

download_write(d) ==
    /\ dl[d].pc = "write"
    /\ archives' = ZipWritten(archives, dl[d].job_id, Walk(dl[d].job_id))
    /\ dl' = [dl EXCEPT ![d].pc = "close"]
    /\ UNCHANGED <<dirs, uploads, resp>>

\* make_archive returns zip_path and the handler returns the FileResponse
download_close(d) ==
    /\ dl[d].pc = "close"
    /\ archives' = ZipClosed(archives, dl[d].job_id)
    /\ dl' = [dl EXCEPT ![d].pc = "send"]
    /\ UNCHANGED <<dirs, uploads, resp>>

\* the server sends the response: it reads the file at zip_path
download_send(d) ==
    /\ dl[d].pc = "send"
    /\ resp' = FileResponse(archives, dl[d].job_id)
    /\ dl' = [dl EXCEPT ![d] = [pc |-> "idle"]]
    /\ UNCHANGED <<dirs, archives, uploads>>

----------------------------------------------------------------------------

\* os.makedirs(OUTPUT_ROOT, exist_ok=True) on a fresh deployment: no job yet
Init ==
    /\ dirs = <<>>
    /\ archives = <<>>
    /\ uploads = <<>>
    /\ dl = [d \in 1..MaxDownloads |-> [pc |-> "idle"]]
    /\ resp = [op |-> "none"]

\* the extractor runs, and its outcome counts, only when the mode is
\* accepted and the source was written
Upload ==
    \E filename \in Filenames, mode \in Modes \cup {"fast"}, io \in IoOutcomes :
        LET runs == mode \in Modes /\ io = "ok"
        IN  \E n \in (IF runs THEN 0..MaxFrames ELSE {0}),
               exit \in (IF runs THEN {0, 1} ELSE {0}) :
                upload_video(filename, mode, io, n, exit)

ListImages ==
    \E job_id \in Ids, page \in 1..MaxPage, limit \in 1..MaxLimit :
        /\ limit <= LimitMax
        /\ list_images(job_id, page, limit)

DownloadBegin ==
    \E d \in 1..MaxDownloads, job_id \in DownloadIds :
        download_begin(d, job_id)

DownloadWrite == \E d \in 1..MaxDownloads : download_write(d)

DownloadClose == \E d \in 1..MaxDownloads : download_close(d)

DownloadSend == \E d \in 1..MaxDownloads : download_send(d)

Download == \E job_id \in DownloadIds : download_zip(job_id)

\* requests handled one after the other
Next == Upload \/ ListImages \/ Download

Spec == Init /\ [][Next]_vars

\* download requests handled by up to MaxDownloads threads at once
NextConc ==
    \/ Upload
    \/ DownloadBegin
    \/ DownloadWrite
    \/ DownloadClose
    \/ DownloadSend

SpecConc == Init /\ [][NextConc]_vars

----------------------------------------------------------------------------
(* Properties *)

\* the image files of a job directory
ImagesOf(j) == {f \in dirs[j] : EndsWith(f, ".jpg")}

\* how many images of the job sort before f
Rank(j, f) == Cardinality({g \in ImagesOf(j) : StrLess(g, f)})

\* the image at position i (from 1) of the job's images in lexicographic order
ImageAt(j, i) == CHOOSE f \in ImagesOf(j) : Rank(j, f) = i - 1

\* the least n with n * limit >= total
CeilOf(total, limit) ==
    CHOOSE n \in 0..total : n * limit >= total /\ (n = 0 \/ (n - 1) * limit < total)

RECURSIVE Concat(_)
Concat(seqs) ==
    IF Len(seqs) = 0 THEN <<>> ELSE Head(seqs) \o Concat(Tail(seqs))

\* the upload of job j ran the extractor and it exited with status zero
Extracted(j) == uploads[j].ran /\ uploads[j].exit = 0

\* the upload of job j ran the extractor and it exited with another status
ExtractionFailed(j) == uploads[j].ran /\ uploads[j].exit # 0

\* C1: for every upload that got past mode validation, the temporary source
\* file written into the job directory no longer exists when the request
\* has finished, whatever the outcome.
C1_SourceRemoved ==
    \A j \in DOMAIN uploads : uploads[j].filename \notin dirs[j]

\* C2: a listing of a job whose extraction failed returns no frames of that
\* job (no partially populated job directory is exposed); a listing of a job
\* whose extraction succeeded returns frames of that extraction only (that
\* it returns all of them is C10).
C2_NoPartialJobListed ==
    (resp.op = "list" /\ resp.job_id \in DOMAIN uploads) =>
        LET j == resp.job_id
        IN  /\ ExtractionFailed(j) => (resp.status = 404 \/ resp.total = 0)
            /\ Extracted(j) =>
                    /\ resp.status = 200
                    /\ \A i \in DOMAIN resp.images :
                           \E f \in uploads[j].produced :
                               resp.images[i] = Url(j, f)

\* C3: an upload with a valid mode returns a job identity if and only if
\* the extractor exited with status zero; when it exits non-zero the
\* response is a 500 without a job identity; a returned job identity is that
\* of a job whose extraction has completed and whose frames are in place.
C3_JobIdIffExitZero ==
    [][DOMAIN uploads' # DOMAIN uploads =>
        LET j == CHOOSE k \in DOMAIN uploads' \ DOMAIN uploads : TRUE
            u == uploads'[j]
        IN  /\ resp'.op = "upload"
            /\ resp'.mode \in Modes
            /\ (resp'.job_id # None) <=> (u.ran /\ u.exit = 0)
            /\ (resp'.job_id # None) =>
                    /\ resp'.job_id = j
                    /\ resp'.status = 200
                    /\ u.produced \ {u.filename} \subseteq dirs'[j]
            /\ (u.ran /\ u.exit # 0) =>
                    (resp'.status = 500 /\ resp'.job_id = None)]_vars

C3_Witness ==
    /\ resp.op = "upload"
    /\ resp.status = 200
    /\ resp.job_id \in DOMAIN uploads
    /\ uploads[resp.job_id].exit = 0
    /\ uploads[resp.job_id].produced # {}

\* C4: an upload whose mode is neither "scene" nor "all" is answered with
\* 400 and no job identity, and the step changes nothing else: no job
\* directory, no file, no archive, no run of the extractor.
C4_InvalidModeChangesNothing ==
    [][(resp' # resp /\ resp'.op = "upload" /\ resp'.mode \notin Modes) =>
        /\ resp'.status = 400
        /\ resp'.job_id = None
        /\ UNCHANGED <<dirs, archives, uploads>>]_vars

C4_Witness ==
    /\ resp.op = "upload"
    /\ resp.mode \notin Modes
    /\ resp.status = 400
    /\ DOMAIN dirs # {}

\* C5: a listing of an existing job with T image files and page size L
\* reports total = T and total_pages = ceil(T / L), or 1 when T = 0, so
\* total_pages >= 1, whatever the page requested.
C5_TotalPages ==
    (resp.op = "list" /\ resp.job_id \in DOMAIN dirs) =>
        LET T == Cardinality(ImagesOf(resp.job_id))
            L == resp.page_size
        IN  /\ resp.status = 200
            /\ resp.total = T
            /\ resp.total_pages = (IF T = 0 THEN 1 ELSE CeilOf(T, L))
            /\ resp.total_pages >= 1

C5_Witness ==
    /\ resp.op = "list"
    /\ resp.job_id \in DOMAIN dirs
    /\ resp.total = 3
    /\ resp.page_size = 2
    /\ resp.total_pages = 2

\* C6: page p of size L of an existing job is exactly the URLs of the names
\* at positions (p-1)*L+1 .. min(p*L, T) of the job's images in
\* lexicographic order, in that order; the pages 1..total_pages one after
\* the other are the whole ordered list; a page beyond total_pages is an
\* empty list with the true total and total_pages, not an error.
C6_PageIsSliceOfSorted ==
    (resp.op = "list" /\ resp.job_id \in DOMAIN dirs) =>
        LET j == resp.job_id
            p == resp.page
            L == resp.page_size
            T == Cardinality(ImagesOf(j))
            first == (p - 1) * L + 1
            last == IF p * L < T THEN p * L ELSE T
            count == IF last >= first THEN last - first + 1 ELSE 0
            pages == [q \in 1..resp.total_pages |-> ListResponse(j, q, L).images]
        IN  /\ resp.status = 200
            /\ resp.images = [k \in 1..count |-> Url(j, ImageAt(j, first + k - 1))]
            /\ Concat(pages) = [i \in 1..T |-> Url(j, ImageAt(j, i))]
            /\ p > resp.total_pages =>
                    /\ resp.images = <<>>
                    /\ resp.total = T
                    /\ resp.total_pages = ListResponse(j, 1, L).total_pages

C6_Witness ==
    /\ resp.op = "list"
    /\ resp.job_id \in DOMAIN dirs
    /\ resp.page = 2
    /\ resp.page_size = 2
    /\ resp.total = 3
    /\ Len(resp.images) = 1

\* C7: a listing or a download of a job identity that no upload created is
\* answered with 404.
C7_NeverCreatedNotFound ==
    (resp.op \in {"list", "download"} /\ resp.job_id \notin DOMAIN uploads) =>
        resp.status = 404

\* C8: the archive a download returns contains every image file that is in
\* the job's directory.
C8_ArchiveHasEveryImage ==
    (resp.op = "download" /\ resp.job_id \in DOMAIN dirs) =>
        /\ resp.status = 200
        /\ ImagesOf(resp.job_id) \subseteq resp.body.entries

\* C9: every download response, also of requests that overlap in time,
\* delivers a complete archive: its central directory is written and its
\* members are the files of the job directory, never a truncated or
\* partially written file.
C9_DownloadComplete ==
    (resp.op = "download" /\ resp.job_id \in DOMAIN dirs) =>
        /\ resp.body.cd
        /\ resp.body.entries = dirs[resp.job_id]

\* C10: after a successful upload, whatever the uploaded file's name, the
\* images the listing counts for the job are exactly the frames the
\* extractor produced.
C10_ListingEqualsFrames ==
    (resp.op = "list" /\ resp.job_id \in DOMAIN uploads /\ Extracted(resp.job_id)) =>
        /\ resp.total = Cardinality(uploads[resp.job_id].produced)
        /\ \A i \in DOMAIN resp.images :
               \E f \in uploads[resp.job_id].produced :
                   resp.images[i] = Url(resp.job_id, f)

====
